---- MODULE Spec2Model ----
(***************************************************************************)
(* The PBS job handle of deepks/task/job/pbs.py: submission of a script    *)
(* through qsub, polling of the job status through qstat, and generation   *)
(* of the submission-script header from a resource specification.          *)
(*                                                                         *)
(* Text is a sequence of one-character strings, so that the parsing done   *)
(* by the code (str.split, readlines, negative indexing) is computed and   *)
(* not assumed.  The remote context is the state: three files of the       *)
(* remote working directory and the reply the scheduler gives to qstat.    *)
(***************************************************************************)
EXTENDS Integers, Sequences, FiniteSets, TLC

VARIABLES
    scriptFile,   \* the submission-script file: [exists, content]
    jobIdFile,    \* the job-id file: [exists, content]
    finishTag,    \* whether the finish-tag file exists
    sched,        \* what `qstat <job id>` answers now: [ret, out, err]
    op,           \* the operation that ran last
    inp,          \* the inputs of the operation that ran last
    result,       \* its outcome: [kind, value, msg]
    calls,        \* the remote-context calls it made, in order
    polled,       \* the status the previous poll returned ("" before any)
    res,          \* the resource specification given to sub_script_head
    head          \* the header text sub_script_head returned

vars == <<scriptFile, jobIdFile, finishTag, sched, op, inp, result, calls,
          polled, res, head>>

(***************************************************************************)
(* Bounds of the model.                                                    *)
(***************************************************************************)
MaxLen == 4       \* longest qstat stdout, in characters
MaxSubLen == 2    \* longest qsub stdout, in characters
MaxErrLen == 3    \* longest qstat stderr, in fragments
MaxNum == 2       \* numb_gpu and mem_limit range over -MaxNum .. MaxNum
MaxPart == 2      \* longest partition name, in characters

(***************************************************************************)
(* Text.                                                                   *)
(***************************************************************************)
NL == "\n"
SP == " "
White == {SP, NL}

RECURSIVE Str(_, _)
Str(chars, n) ==
    IF n = 0 THEN {<<>>}
    ELSE LET shorter == Str(chars, n - 1)
         IN  shorter \cup {Append(s, c) : s \in shorter, c \in chars}

\* The position of the first c in s, or 0.
RECURSIVE Find(_, _, _)
Find(s, c, i) ==
    IF i > Len(s) THEN 0
    ELSE IF s[i] = c THEN i
    ELSE Find(s, c, i + 1)

\* str.split(sep) for a one-character separator: always at least one piece.
RECURSIVE SplitOn(_, _)
SplitOn(s, sep) ==
    LET i == Find(s, sep, 1)
    IN  IF i = 0 THEN <<s>>
        ELSE <<SubSeq(s, 1, i - 1)>> \o SplitOn(SubSeq(s, i + 1, Len(s)), sep)

\* The length of the longest prefix of s whose characters are all in set.
RECURSIVE Span(_, _, _)
Span(s, set, i) ==
    IF i <= Len(s) /\ s[i] \in set THEN Span(s, set, i + 1) ELSE i - 1

\* str.split() with no argument: the maximal runs of non-whitespace.
RECURSIVE SplitWs(_)
SplitWs(s) ==
    LET w == Span(s, White, 1)
        t == SubSeq(s, w + 1, Len(s))
        n == Span(t, {t[k] : k \in 1..Len(t)} \ White, 1)
    IN  IF t = <<>> THEN <<>>
        ELSE <<SubSeq(t, 1, n)>> \o SplitWs(SubSeq(t, n + 1, Len(t)))

\* file.readlines(): the lines, each with its line end.
RECURSIVE ReadLines(_)
ReadLines(s) ==
    LET i == Find(s, NL, 1)
    IN  IF s = <<>> THEN <<>>
        ELSE IF i = 0 THEN <<s>>
        ELSE <<SubSeq(s, 1, i)>> \o ReadLines(SubSeq(s, i + 1, Len(s)))

\* `needle in s` for sequences: needle occurs as a contiguous run.
Contains(s, needle) ==
    \E i \in 0..(Len(s) - Len(needle)) :
        SubSeq(s, i + 1, i + Len(needle)) = needle

(***************************************************************************)
(* Outcomes and the remote-context calls.                                  *)
(***************************************************************************)
Return(v) == [kind |-> "return", value |-> v, msg |-> <<>>]
Raise(e, m) == [kind |-> "raise", value |-> e, msg |-> m]
NoResult == [kind |-> "none", value |-> "", msg |-> <<>>]

Call(f, a) == [fn |-> f, arg |-> a]

NoFile == [exists |-> FALSE, content |-> <<>>]
File(c) == [exists |-> TRUE, content |-> c]

sub_script_name == "sub_script_name"
job_id_name == "job_id_name"
finish_tag_name == "finish_tag_name"
remote_root == "remote_root"

JobStatus == {"unsubmitted", "waiting", "running", "finished", "terminated",
              "unknown"}

(***************************************************************************)
(* The remote context (its implementation is outside the handle): what     *)
(* its primitives answer, given the files and the scheduler's reply.       *)
(***************************************************************************)
\* The file `path` after the write_file calls among cs, in order.
RECURSIVE Written(_, _, _)
Written(file, path, cs) ==
    IF cs = <<>> THEN file
    ELSE LET c == Head(cs)
         IN  Written(IF c.fn = "write_file" /\ c.arg[1] = path
                        THEN File(c.arg[2]) ELSE file,
                     path, Tail(cs))

\* Batch.check_finish_tag: whether the finish-tag file exists.
check_finish_tag(tag) ==
    [value |-> tag, calls |-> <<Call("check_file_exists", <<finish_tag_name>>)>>]

\* The words of the stderr of `qstat` for a job the scheduler no longer knows.
UnknownJobId == <<"qstat: Unknown", " Job Id">>

(***************************************************************************)
(* PBS._get_job_id                                                         *)
(***************************************************************************)
_get_job_id(idFile) ==
    IF idFile.exists
    THEN [value |-> idFile.content,
          calls |-> <<Call("check_file_exists", <<job_id_name>>),
                      Call("read_file", <<job_id_name>>)>>]
    ELSE [value |-> <<>>,
          calls |-> <<Call("check_file_exists", <<job_id_name>>)>>]

(***************************************************************************)
(* PBS._check_status_inner                                                 *)
(***************************************************************************)
\* seq[-2] of Python: defined when seq has two elements or more.
HasIndexM2(seq) == Len(seq) >= 2
IndexM2(seq) == seq[Len(seq) - 1]

\* finished or terminated, by the finish tag.
ByFinishTag(tag) ==
    LET t == check_finish_tag(tag)
    IN  [outcome |-> Return(IF t.value THEN "finished" ELSE "terminated"),
         calls |-> t.calls]

StatusOfWord_HRunning(status_word, tag) ==
    IF status_word \in {<<"Q">>} THEN [outcome |-> Return("waiting"), calls |-> <<>>]
    ELSE IF status_word \in {<<"R">>, <<"H">>}
         THEN [outcome |-> Return("running"), calls |-> <<>>]
    ELSE IF status_word \in {<<"C">>, <<"E">>, <<"K">>} THEN ByFinishTag(tag)
    ELSE [outcome |-> Return("unknown"), calls |-> <<>>]

\* The status of a status word (lines 157-167).
StatusOfWord(status_word, tag) ==
    IF status_word \in {<<"Q">>, <<"H">>}
    THEN [outcome |-> Return("waiting"), calls |-> <<>>]
    ELSE IF status_word \in {<<"R">>}
         THEN [outcome |-> Return("running"), calls |-> <<>>]
    ELSE IF status_word \in {<<"C">>, <<"E">>, <<"K">>} THEN ByFinishTag(tag)
    ELSE [outcome |-> Return("unknown"), calls |-> <<>>]

\* The status of the stdout of a qstat that exited 0 (lines 151-167).
StatusOfOutput(out, tag) ==
    LET lines == SplitOn(out, NL)
    IN  IF ~HasIndexM2(lines)
        THEN [outcome |-> Raise("IndexError", <<>>), calls |-> <<>>]
        ELSE LET words == SplitWs(IndexM2(lines))
             IN  IF ~HasIndexM2(words)
                 THEN [outcome |-> Raise("IndexError", <<>>), calls |-> <<>>]
                 ELSE StatusOfWord(IndexM2(words), tag)

QstatFailure(err_str, ret) ==
    Raise("RuntimeError",
          <<"status command qstat fails to execute\nerror message:">>
          \o err_str \o <<"\nreturn code ", ToString(ret), "\n">>)

_check_status_inner_TagInverted(job_id, reply, tag) ==
    LET q == <<Call("block_call", <<"qstat ", job_id>>)>>
        r == IF reply.ret # 0
             THEN IF Contains(reply.err, UnknownJobId)
                  THEN ByFinishTag(~tag)
                  ELSE [outcome |-> QstatFailure(reply.err, reply.ret),
                        calls |-> <<>>]
             ELSE StatusOfOutput(reply.out, tag)
    IN  [outcome |-> r.outcome, calls |-> q \o r.calls]

_check_status_inner_Guess(job_id, reply, tag) ==
    LET q == <<Call("block_call", <<"qstat ", job_id>>)>>
        r == IF reply.ret # 0
             THEN IF Contains(reply.err, UnknownJobId)
                  THEN ByFinishTag(tag)
                  ELSE [outcome |-> Return("unknown"), calls |-> <<>>]
             ELSE StatusOfOutput(reply.out, tag)
    IN  [outcome |-> r.outcome, calls |-> q \o r.calls]

_check_status_inner(job_id, reply, tag) ==
    LET q == <<Call("block_call", <<"qstat ", job_id>>)>>
        r == IF reply.ret # 0
             THEN IF Contains(reply.err, UnknownJobId)
                  THEN ByFinishTag(tag)
                  ELSE [outcome |-> QstatFailure(reply.err, reply.ret),
                        calls |-> <<>>]
             ELSE StatusOfOutput(reply.out, tag)
    IN  [outcome |-> r.outcome, calls |-> q \o r.calls]

(***************************************************************************)
(* PBS.check_status                                                        *)
(***************************************************************************)
check_status_NoEmptyTest(idFile, reply, tag) ==
    LET j == _get_job_id(idFile)
        s == _check_status_inner(j.value, reply, tag)
    IN  IF ~idFile.exists
        THEN [outcome |-> Return("unsubmitted"), calls |-> j.calls]
        ELSE [outcome |-> s.outcome, calls |-> j.calls \o s.calls]

check_status_Retry(idFile, reply, tag) ==
    LET j == _get_job_id(idFile)
        s == _check_status_inner(j.value, reply, tag)
    IN  IF j.value = <<>>
        THEN [outcome |-> Return("unsubmitted"), calls |-> j.calls]
        ELSE IF s.outcome = Return("unknown")
        THEN [outcome |-> s.outcome, calls |-> j.calls \o s.calls \o s.calls]
        ELSE [outcome |-> s.outcome, calls |-> j.calls \o s.calls]

check_status(idFile, reply, tag) ==
    LET j == _get_job_id(idFile)
        s == _check_status_inner(j.value, reply, tag)
    IN  IF j.value = <<>>
        THEN [outcome |-> Return("unsubmitted"), calls |-> j.calls]
        ELSE [outcome |-> s.outcome, calls |-> j.calls \o s.calls]

(***************************************************************************)
(* PBS.exec_sub_script                                                     *)
(***************************************************************************)
\* The command line of the submission (line 34).
QsubCommand == <<"cd ", remote_root, " && ", "qsub", " ", sub_script_name>>

\* context.block_checkcall: raises when the command exits nonzero.
block_checkcall(reply) ==
    IF reply.ret # 0
    THEN Raise("RuntimeError", <<"return code ", ToString(reply.ret)>>)
    ELSE Return("")

exec_sub_script_WholeLine(script_str, reply) ==
    LET w1 == <<Call("write_file", <<sub_script_name, script_str>>)>>
        q == <<Call("block_checkcall", QsubCommand)>>
        subret == ReadLines(reply.out)
    IN  IF block_checkcall(reply).kind = "raise"
        THEN [outcome |-> block_checkcall(reply), calls |-> w1 \o q]
        ELSE IF Len(subret) = 0
        THEN [outcome |-> Raise("IndexError", <<>>), calls |-> w1 \o q]
        ELSE IF Len(SplitWs(subret[1])) = 0
        THEN [outcome |-> Raise("IndexError", <<>>), calls |-> w1 \o q]
        ELSE [outcome |-> Return(""),
              calls |-> w1 \o q \o
                  <<Call("write_file", <<job_id_name, subret[1]>>)>>]

exec_sub_script_IdFirst(script_str, reply) ==
    LET w1 == <<Call("write_file", <<sub_script_name, script_str>>)>>
        q == <<Call("block_checkcall", QsubCommand)>>
        subret == ReadLines(reply.out)
        early == <<Call("write_file", <<job_id_name, SplitWs(reply.out)[1]>>)>>
    IN  IF SplitWs(reply.out) = <<>>
        THEN [outcome |-> Raise("IndexError", <<>>), calls |-> w1]
        ELSE IF block_checkcall(reply).kind = "raise"
        THEN [outcome |-> block_checkcall(reply), calls |-> w1 \o early \o q]
        ELSE [outcome |-> Return(""), calls |-> w1 \o early \o q]

exec_sub_script(script_str, reply) ==
    LET w1 == <<Call("write_file", <<sub_script_name, script_str>>)>>
        q == <<Call("block_checkcall", QsubCommand)>>
        subret == ReadLines(reply.out)
    IN  IF block_checkcall(reply).kind = "raise"
        THEN [outcome |-> block_checkcall(reply), calls |-> w1 \o q]
        ELSE IF Len(subret) = 0
        THEN [outcome |-> Raise("IndexError", <<>>), calls |-> w1 \o q]
        ELSE IF Len(SplitWs(subret[1])) = 0
        THEN [outcome |-> Raise("IndexError", <<>>), calls |-> w1 \o q]
        ELSE [outcome |-> Return(""),
              calls |-> w1 \o q \o
                  <<Call("write_file", <<job_id_name, SplitWs(subret[1])[1]>>)>>]

(***************************************************************************)
(* The inputs the model draws.                                             *)
(***************************************************************************)
Reply(r, o, e) == [ret |-> r, out |-> o, err |-> e]

\* Script texts: the handle writes them as they are.
Scripts == {<<"a">>, <<"b">>}

\* What qsub may answer.
SubChars == {"1", "s", SP, NL}
SubReplies ==
    {Reply(0, o, <<>>) : o \in Str(SubChars, MaxSubLen)}
    \cup {Reply(1, <<"1", NL>>, <<>>)}

\* What qstat may answer: every stdout up to MaxLen characters with exit
\* code 0, every stderr up to MaxErrLen fragments with a nonzero exit code.
OutChars == {"Q", "H", "R", "C", "E", "K", "X", SP, NL}
ErrFrags == {UnknownJobId[1], UnknownJobId[2], "other"}
StatusLine(word) == <<word, SP, "X", NL>>
AllReplies ==
    {Reply(0, o, <<>>) : o \in Str(OutChars, MaxLen)}
    \cup {Reply(0, StatusLine("R"), UnknownJobId)}
    \cup {Reply(r, o, e) : r \in {1, 153}, o \in {<<>>, StatusLine("R")},
                           e \in Str(ErrFrags, MaxErrLen)}

\* A few of them, for the runs in which the reply changes between polls.
SomeReplies ==
    {Reply(0, o, <<>>) :
        o \in {StatusLine("R"), StatusLine("C"), StatusLine("X")}}
    \cup {Reply(153, <<>>, UnknownJobId), Reply(1, <<>>, <<"other">>)}

NoInput == [script |-> <<>>, sub |-> Reply(0, <<>>, <<>>)]

\* PBS.default_resources on an empty mapping (the keys the header reads).
DefaultRes ==
    [numb_node |-> 1, task_per_node |-> 1, numb_gpu |-> 0,
     time_limit |-> <<"1:0:0">>, mem_limit |-> -1, partition |-> <<>>,
     module_unload_list |-> <<>>, module_list |-> <<>>, source_list |-> <<>>,
     envs |-> [present |-> FALSE, items |-> <<>>]]

(***************************************************************************)
(* The operations of one job handle, and its environment.                  *)
(***************************************************************************)
HasJobId == jobIdFile.exists /\ jobIdFile.content # <<>>

ExecSubScript ==
    \E script_str \in Scripts, reply \in SubReplies :
        LET r == exec_sub_script(script_str, reply)
        IN  /\ op' = "exec_sub_script"
            /\ inp' = [script |-> script_str, sub |-> reply]
            /\ result' = r.outcome
            /\ calls' = r.calls
            /\ scriptFile' = Written(scriptFile, sub_script_name, r.calls)
            /\ jobIdFile' = Written(jobIdFile, job_id_name, r.calls)
            /\ UNCHANGED <<finishTag, sched, polled, res, head>>

Poll ==
    LET r == check_status(jobIdFile, sched, finishTag)
    IN  /\ op' = "check_status"
        /\ inp' = NoInput
        /\ result' = r.outcome
        /\ calls' = r.calls
        /\ scriptFile' = Written(scriptFile, sub_script_name, r.calls)
        /\ jobIdFile' = Written(jobIdFile, job_id_name, r.calls)
        /\ UNCHANGED <<finishTag, sched, res, head>>

CheckStatus == Poll /\ UNCHANGED polled

Environment(newSched, newTag) ==
    /\ sched' = newSched
    /\ finishTag' = newTag
    /\ op' = "environment"
    /\ inp' = NoInput
    /\ result' = NoResult
    /\ calls' = <<>>
    /\ UNCHANGED <<scriptFile, jobIdFile, polled, res, head>>

\* The scheduler's answer to qstat changes.
SchedulerChanges ==
    \E r \in SomeReplies \ {sched} : Environment(r, finishTag)

\* The payload of the submitted job ends well and writes the finish tag.
PayloadFinishes ==
    /\ HasJobId
    /\ ~finishTag
    /\ Environment(sched, TRUE)

Init ==
    /\ scriptFile = NoFile
    /\ jobIdFile \in {NoFile, File(<<>>)}
    /\ finishTag = FALSE
    /\ sched \in SomeReplies
    /\ op = "init"
    /\ inp = NoInput
    /\ result = NoResult
    /\ calls = <<>>
    /\ polled = ""
    /\ res = DefaultRes
    /\ head = <<>>

Next == ExecSubScript \/ CheckStatus \/ SchedulerChanges \/ PayloadFinishes

Spec == Init /\ [][Next]_vars

(***************************************************************************)
(* One poll of a submitted job, over every reply of the scheduler.         *)
(***************************************************************************)
InitPoll ==
    /\ scriptFile = File(<<"a">>)
    /\ jobIdFile = File(<<"1">>)
    /\ finishTag \in BOOLEAN
    /\ sched \in AllReplies
    /\ op = "init"
    /\ inp = NoInput
    /\ result = NoResult
    /\ calls = <<>>
    /\ polled = ""
    /\ res = DefaultRes
    /\ head = <<>>

NextPoll == CheckStatus

SpecPoll == InitPoll /\ [][NextPoll]_vars

(***************************************************************************)
(* PBS.sub_script_head: the header, as its lines in order; a line is the   *)
(* sequence of the pieces the format string puts together.                 *)
(***************************************************************************)
\* One line of `prefix` and item for each item of a list (lines 84-90).
RECURSIVE LinesOf(_, _)
LinesOf(prefix, list) ==
    IF list = <<>> THEN <<>>
    ELSE <<(<<prefix>> \o Head(list) \o <<NL>>)>> \o LinesOf(prefix, Tail(list))

RECURSIVE ExportLines(_)
ExportLines(items) ==
    IF items = <<>> THEN <<>>
    ELSE <<(<<"export ">> \o Head(items)[1] \o <<"=">> \o Head(items)[2] \o <<NL>>)>>
         \o ExportLines(Tail(items))

sub_script_head(r) ==
    <<(<<"#!/bin/bash -l", NL>>)>>
    \o (IF r.numb_gpu = 0
        THEN <<(<<"#PBS -l nodes=", ToString(r.numb_node), ":ppn=",
                  ToString(r.task_per_node), NL>>)>>
        ELSE <<(<<"#PBS -l nodes=", ToString(r.numb_node), ":ppn=",
                  ToString(r.task_per_node), ":gpus=", ToString(r.numb_gpu), NL>>)>>)
    \o <<(<<"#PBS -l walltime=">> \o r.time_limit \o <<NL>>)>>
    \o (IF r.mem_limit > 0
        THEN <<(<<"#PBS -l mem=", ToString(r.mem_limit), "G ", NL>>)>>
        ELSE <<>>)
    \o <<(<<"#PBS -j oe", NL>>)>>
    \o (IF Len(r.partition) > 0
        THEN <<(<<"#PBS -q ">> \o r.partition \o <<" ", NL>>)>>
        ELSE <<>>)
    \o <<(<<NL>>)>>
    \o LinesOf("module unload ", r.module_unload_list)
    \o LinesOf("module load ", r.module_list)
    \o <<(<<NL>>)>>
    \o LinesOf("source ", r.source_list)
    \o <<(<<NL>>)>>
    \o (IF r.envs.present THEN ExportLines(r.envs.items) \o <<(<<NL>>)>> ELSE <<>>)
    \o <<(<<"cd  $PBS_O_WORKDIR ", NL>>)>>

\* Resource specifications with every key the header reads filled.
Resources ==
    [numb_node : {1, 2}, task_per_node : {1},
     numb_gpu : (-MaxNum)..MaxNum,
     time_limit : {<<"1:0:0">>},
     mem_limit : (-MaxNum)..MaxNum,
     partition : Str({"q"}, MaxPart),
     module_unload_list : {<<>>},
     module_list : {<<>>, <<(<<"m">>)>>},
     source_list : {<<>>},
     envs : {[present |-> FALSE, items |-> <<>>],
             [present |-> TRUE, items |-> <<>>],
             [present |-> TRUE, items |-> <<(<<(<<"k">>), (<<"v">>)>>)>>]}]

SubScriptHead ==
    /\ op = "init"
    /\ op' = "sub_script_head"
    /\ head' = sub_script_head(res)
    /\ UNCHANGED <<scriptFile, jobIdFile, finishTag, sched, inp, result, calls,
                   polled, res>>

InitHead ==
    /\ scriptFile = NoFile
    /\ jobIdFile = NoFile
    /\ finishTag = FALSE
    /\ sched = Reply(0, <<>>, <<>>)
    /\ op = "init"
    /\ inp = NoInput
    /\ result = NoResult
    /\ calls = <<>>
    /\ polled = ""
    /\ res \in Resources
    /\ head = <<>>

NextHead == SubScriptHead

SpecHead == InitHead /\ [][NextHead]_vars

(***************************************************************************)
(* The life of one submitted job: the handle submits once, the scheduler   *)
(* moves the job forward only (queued or held, running, completed or       *)
(* exiting, gone from the queue), the finish tag, once written, stays.     *)
(***************************************************************************)
Gone == Reply(153, <<>>, UnknownJobId)

\* How far along a reply of the scheduler shows the job to be.
Stage(reply) ==
    IF reply = Gone THEN 3
    ELSE IF reply.out[1] \in {"C", "E", "K"} THEN 2
    ELSE IF reply.out[1] = "R" THEN 1
    ELSE 0

LifeReplies ==
    {Reply(0, StatusLine(w), <<>>) : w \in {"Q", "H", "R", "C", "E", "K"}}
    \cup {Gone}

LifeSubmit ==
    /\ ~HasJobId
    /\ ExecSubScript

LifePoll ==
    /\ Poll
    /\ polled' = IF result'.kind = "return" THEN result'.value ELSE polled

SchedulerAdvances ==
    /\ HasJobId
    /\ \E r \in LifeReplies \ {sched} :
           /\ Stage(r) \in {Stage(sched), Stage(sched) + 1}
           /\ Environment(r, finishTag)

\* The finish tag of the payload appears: no sooner than the job runs.
FinishTagAppears ==
    /\ HasJobId
    /\ Stage(sched) >= 1
    /\ ~finishTag
    /\ Environment(sched, TRUE)

InitLife ==
    /\ scriptFile = NoFile
    /\ jobIdFile \in {NoFile, File(<<>>)}
    /\ finishTag = FALSE
    /\ sched \in {r \in LifeReplies : Stage(r) = 0}
    /\ op = "init"
    /\ inp = NoInput
    /\ result = NoResult
    /\ calls = <<>>
    /\ polled = ""
    /\ res = DefaultRes
    /\ head = <<>>

NextLife == LifeSubmit \/ LifePoll \/ SchedulerAdvances \/ FinishTagAppears

SpecLife == InitLife /\ [][NextLife]_vars

(***************************************************************************)
(* What the claims speak of.                                               *)
(***************************************************************************)
CallsOf(cs, f) == {i \in 1..Len(cs) : cs[i].fn = f}
WritesTo(cs, path) ==
    {i \in 1..Len(cs) : cs[i].fn = "write_file" /\ cs[i].arg[1] = path}

\* tok is the first whitespace-delimited token of the first line of out.
IsFirstToken(tok, out) ==
    \E i \in 1..Len(out) : \E j \in i..Len(out) :
        /\ tok = SubSeq(out, i, j)
        /\ \A k \in i..j : out[k] \notin White
        /\ \A k \in 1..(i - 1) : out[k] = SP
        /\ j = Len(out) \/ out[j + 1] \in White

\* out has no line, or its first line has no token.
NoToken(out) ==
    \A k \in 1..Len(out) :
        (\A m \in 1..(k - 1) : out[m] # NL) => out[k] \in White

\* The status word of a qstat stdout: the second-to-last word of its
\* second-to-last line, where there is one.
StatusLineOf(out) == SplitOn(out, NL)[Len(SplitOn(out, NL)) - 1]
HasStatusWord(out) ==
    /\ Len(SplitOn(out, NL)) >= 2
    /\ Len(SplitWs(StatusLineOf(out))) >= 2
StatusWordOf(out) ==
    SplitWs(StatusLineOf(out))[Len(SplitWs(StatusLineOf(out))) - 1]

Polled == op = "check_status"
Submitted == op = "exec_sub_script"

\* C1: a poll with no persisted job id (no job-id file, or an empty one)
\* returns unsubmitted and runs no remote command.
C1_NoJobIdIsUnsubmitted ==
    (Polled /\ ~HasJobId) =>
        /\ result = Return("unsubmitted")
        /\ CallsOf(calls, "block_call") = {}
        /\ CallsOf(calls, "block_checkcall") = {}

C1_Witness ==
    /\ Polled
    /\ jobIdFile = File(<<>>)
    /\ result = Return("unsubmitted")
    /\ scriptFile.exists

\* C2: when qstat exits nonzero and its stderr holds "qstat: Unknown Job Id",
\* the poll returns finished if the finish tag is there and terminated if not.
C2_GoneIsFinishedOrTerminated ==
    (Polled /\ HasJobId /\ sched.ret # 0 /\ Contains(sched.err, UnknownJobId)) =>
        result = Return(IF finishTag THEN "finished" ELSE "terminated")

C2_Witness ==
    /\ Polled
    /\ sched.ret # 0
    /\ Contains(sched.err, UnknownJobId)
    /\ Len(sched.err) > Len(UnknownJobId)
    /\ finishTag
    /\ result = Return("finished")

\* C3: when qstat exits 0, the poll maps the status word (the second-to-last
\* word of the second-to-last line of stdout): Q, H to waiting; R to running;
\* C, E, K to finished or terminated by the finish tag; any other to unknown.
C3_StatusWordMapping ==
    (Polled /\ HasJobId /\ sched.ret = 0 /\ HasStatusWord(sched.out)) =>
        LET w == StatusWordOf(sched.out)
        IN  result = Return(
                IF w = <<"Q">> \/ w = <<"H">> THEN "waiting"
                ELSE IF w = <<"R">> THEN "running"
                ELSE IF w = <<"C">> \/ w = <<"E">> \/ w = <<"K">>
                     THEN (IF finishTag THEN "finished" ELSE "terminated")
                ELSE "unknown")

C3_Witness ==
    /\ Polled
    /\ sched.ret = 0
    /\ HasStatusWord(sched.out)
    /\ StatusWordOf(sched.out) = <<"K">>
    /\ ~finishTag
    /\ result = Return("terminated")

\* C4: when qstat exits nonzero and its stderr does not hold "qstat: Unknown
\* Job Id", the poll raises an error whose message holds the stderr text and
\* the exit code, and returns no status, whatever the finish tag.
C4_OtherFailureRaises ==
    (Polled /\ HasJobId /\ sched.ret # 0 /\ ~Contains(sched.err, UnknownJobId)) =>
        /\ result.kind = "raise"
        /\ Contains(result.msg, sched.err)
        /\ Contains(result.msg, <<ToString(sched.ret)>>)

C4_Witness ==
    /\ Polled
    /\ sched.ret = 153
    /\ sched.err = <<UnknownJobId[2], UnknownJobId[1], "other">>
    /\ finishTag
    /\ result.kind = "raise"

\* C5: when qstat exits 0 the poll returns a status for every stdout,
\* unknown where no status word can be parsed, and never raises.
C5_ExitZeroAlwaysReturns ==
    (Polled /\ HasJobId /\ sched.ret = 0) =>
        /\ result.kind = "return"
        /\ result.value \in JobStatus
        /\ ~HasStatusWord(sched.out) => result.value = "unknown"

\* What a step must satisfy where it is a successful submission: the script
\* is written, then qsub is run on it, then the first token of the first line
\* of qsub's stdout is written to the job-id file, in that order.
SubmitInOrder ==
    (Submitted /\ result.kind = "return") =>
        /\ Len(calls) = 3
        /\ calls[1].fn = "write_file"
        /\ calls[1].arg = <<sub_script_name, inp.script>>
        /\ calls[2].fn = "block_checkcall"
        /\ calls[2].arg = QsubCommand
        /\ calls[3].fn = "write_file"
        /\ calls[3].arg[1] = job_id_name
        /\ IsFirstToken(calls[3].arg[2], inp.sub.out)
        /\ inp.sub.ret = 0
        /\ scriptFile = File(inp.script)
        /\ jobIdFile = File(calls[3].arg[2])
        /\ HasJobId

\* No operation writes the job-id file before a qsub that exited 0.
IdWrittenAfterQsub ==
    \A i \in WritesTo(calls, job_id_name) :
        /\ Submitted
        /\ inp.sub.ret = 0
        /\ \E j \in CallsOf(calls, "block_checkcall") : j < i

\* A poll of a persisted job id asks qstat about that id and does not
\* return unsubmitted.
PollReadsJobId ==
    (Polled /\ HasJobId) =>
        /\ result # Return("unsubmitted")
        /\ \E i \in CallsOf(calls, "block_call") :
               calls[i].arg = <<"qstat ", jobIdFile.content>>

\* C6: a submission writes the script, then runs qsub on it, then persists
\* the first token of the first line of qsub's stdout; the job-id file changes
\* in no other step, and a later poll reads that id and is not unsubmitted.
C6_SubmitOrder ==
    [][/\ SubmitInOrder'
       /\ IdWrittenAfterQsub'
       /\ PollReadsJobId'
       /\ (jobIdFile' # jobIdFile) => (Submitted' /\ result'.kind = "return")]_vars

C6_Witness ==
    /\ Polled
    /\ jobIdFile = File(<<"s", "1">>)
    /\ scriptFile = File(<<"b">>)
    /\ result = Return("running")

\* The submission failed: qsub exited nonzero or printed no token.
SubmitFailed ==
    Submitted /\ (inp.sub.ret # 0 \/ NoToken(inp.sub.out))

\* C7: a submission whose qsub exits nonzero or prints no token raises, runs
\* qsub once, and leaves the job-id file as it was, so that a poll of a handle
\* never submitted with success still returns unsubmitted.
C7_FailedSubmitLeavesNoId ==
    [][/\ SubmitFailed' =>
           /\ result'.kind = "raise"
           /\ Cardinality(CallsOf(calls', "block_checkcall")) = 1
           /\ WritesTo(calls', job_id_name) = {}
           /\ jobIdFile' = jobIdFile
       /\ (SubmitFailed /\ ~HasJobId /\ Polled') =>
           result' = Return("unsubmitted")]_vars

C7_Witness ==
    /\ SubmitFailed
    /\ inp.sub = Reply(0, <<NL, "1">>, <<>>)
    /\ result.kind = "raise"
    /\ ~HasJobId

\* C8: a poll, whatever its outcome, writes no file and submits nothing,
\* leaves the script, the job id and the finish tag as they were, asks qstat
\* at most once, and gives the outcome of the poll before it when neither the
\* scheduler's reply nor the finish tag changed in between.
C8_PollHasNoEffect ==
    [][/\ Polled' =>
           /\ CallsOf(calls', "write_file") = {}
           /\ CallsOf(calls', "block_checkcall") = {}
           /\ Cardinality(CallsOf(calls', "block_call")) <= 1
           /\ scriptFile' = scriptFile
           /\ jobIdFile' = jobIdFile
           /\ finishTag' = finishTag
       /\ (Polled /\ Polled' /\ sched' = sched /\ finishTag' = finishTag) =>
           result' = result]_vars

C8_Witness ==
    /\ Polled
    /\ HasJobId
    /\ result = Return("unknown")
    /\ Cardinality(CallsOf(calls, "block_call")) = 1
    /\ finishTag

\* The status changes the state list of the poller allows.
ListedChanges ==
    {<<"unsubmitted", s>> : s \in JobStatus \ {"unsubmitted"}}
    \cup {<<"waiting", "running">>, <<"running", "waiting">>,
          <<"running", "finished">>, <<"running", "terminated">>}

PollChanged == Polled' /\ polled # "" /\ polled' # polled

\* C9 as stated: each change between two consecutive polls of one job is a
\* listed change; finished and terminated are final.
C9_OnlyListedChanges ==
    [][PollChanged => <<polled, polled'>> \in ListedChanges]_vars

\* C9 as amended: each change between two consecutive polls of one job is a
\* listed change, or waiting to finished or terminated (the job ran between
\* the polls), or terminated to finished (the finish tag appeared after the
\* job had left the queue); finished is final.
C9_ChangesOfOneJob ==
    [][PollChanged =>
          <<polled, polled'>> \in
              ListedChanges \cup {<<"waiting", "finished">>,
                                  <<"waiting", "terminated">>,
                                  <<"terminated", "finished">>}]_vars

C9_Witness ==
    /\ Polled
    /\ polled = "finished"
    /\ sched = Gone
    /\ result = Return("finished")

\* The lines of a header that start with a directive.
LinesWith(h, directive) == {i \in 1..Len(h) : h[i][1] = directive}

\* C10: the header has one resource-request line, which names the gpu count
\* only if numb_gpu > 0; it has the memory line iff mem_limit > 0 and the
\* queue line iff partition is not empty.
C10_HeaderDirectives ==
    (op = "sub_script_head") =>
        /\ Cardinality(LinesWith(head, "#PBS -l nodes=")) = 1
        /\ \A i \in LinesWith(head, "#PBS -l nodes=") :
               (\E k \in 1..Len(head[i]) : head[i][k] = ":gpus=")
                   => res.numb_gpu > 0
        /\ (LinesWith(head, "#PBS -l mem=") # {}) <=> (res.mem_limit > 0)
        /\ (LinesWith(head, "#PBS -q ") # {}) <=> (res.partition # <<>>)

====
